---------------------------- MODULE Spec2Model ----------------------------
(* Model of pcsx2/PAD/Linux/Devices/SDL2Gamepad.cpp: SDL2 enumeration, the     *)
(* SDL2Gamepad device life cycle (constructor, destructor), Rumble, GetInput.  *)
EXTENDS Integers, Sequences, FiniteSets, TLC

VARIABLES
    joysticks,      \* the joysticks SDL reports, index id+1 (the environment)
    build_closes,   \* SDL_MINOR_VERSION >= 4 in this build
    forcefeedback,  \* g_conf.pad_options[pad].forcefeedback
    sdl_was_init,   \* SDL_WasInit(0): the subsystems initialised so far
    sig,            \* the process's SIGINT / SIGTERM dispositions
    haptics,        \* SDL's haptic devices: open count and effect table
    devices,        \* device_manager->devices
    alive,          \* FALSE once the device manager has been torn down
    last_enum,      \* how SDL initialisation went in the latest EnumerateSDL2
    calls,          \* release / run calls made into SDL by the latest operation
    ret,            \* the latest operation and what it was given
    conf,           \* g_conf.get_sensibility() and m_deadzone (GetInput)
    query           \* the GetInput call: input, raw value SDL holds, result

vars == <<joysticks, build_closes, forcefeedback, sdl_was_init, sig, haptics,
          devices, alive, last_enum, calls, ret, conf, query>>

lifeVars == <<joysticks, build_closes, forcefeedback, sdl_was_init, sig,
              haptics, devices, alive, last_enum, calls, ret>>

-----------------------------------------------------------------------------
(* Bounds of the model *)

MaxJoy == 2         \* joysticks connected
MaxLeak == 2        \* haptic handles left open before enumeration stops

(* Program constants *)

NB_EFFECT == 2
GAMEPAD_NUMBER == 2

NULL == 0
Handle(id) == id + 1

SDL_INIT_ORDER == <<"EVENTS", "JOYSTICK", "HAPTIC", "GAMECONTROLLER">>

-----------------------------------------------------------------------------
(* The SDL library, as far as SDL2Gamepad.cpp calls it *)

\* SDL_Init(flag): failAt = 0 succeeds; failAt = n fails at the n-th subsystem,
\* leaving the earlier ones initialised. The events subsystem installs SDL's
\* SIGINT / SIGTERM handlers when it starts.
SDL_Init(mask, failAt) ==
    LET upto == IF failAt = 0 THEN Len(SDL_INIT_ORDER) ELSE failAt - 1
        done == {SDL_INIT_ORDER[n] : n \in 1..upto}
    IN  [rc       |-> IF failAt = 0 THEN 0 ELSE -1,
         mask     |-> mask \cup done,
         installs |-> "EVENTS" \in done \ mask]

InitFailures(mask) ==
    {n \in 1..Len(SDL_INIT_ORDER) : SDL_INIT_ORDER[n] \notin mask}

SDL_NumJoysticks == Len(joysticks)

SDL_IsGameController(id) == joysticks[id + 1].isGC

SDL_GameControllerOpen(id) ==
    IF joysticks[id + 1].opens THEN Handle(id) ELSE NULL

SDL_GameControllerGetJoystick(ctl) == ctl

SDL_JoystickOpen(id) ==
    IF joysticks[id + 1].opens THEN Handle(id) ELSE NULL

SDL_JoystickIsHaptic(joy) == joysticks[joy].isHaptic

SDL_JoystickGetGUIDString(joy) == joysticks[joy].guid

SDL_JoystickNameForIndex(id) == joysticks[id + 1].name

\* Opening a haptic device that is still open returns the same handle and
\* counts one more reference.
SDL_HapticOpenFromJoystick(joy, hap) ==
    IF joysticks[joy].hapticOpens
    THEN [h |-> joy, hap |-> [hap EXCEPT ![joy].open = @ + 1]]
    ELSE [h |-> NULL, hap |-> hap]

FreeIds(tab) == {n \in 1..Len(tab) : tab[n] = "free"}

\* The new effect takes the first free slot of the device; -1 without a valid
\* handle or a free slot.
SDL_HapticNewEffect(h, desc, hap) ==
    IF h = NULL \/ FreeIds(hap[h].effects) = {}
    THEN [id |-> -1, hap |-> hap]
    ELSE LET n == CHOOSE m \in FreeIds(hap[h].effects) :
                      \A k \in FreeIds(hap[h].effects) : m <= k
         IN  [id |-> n - 1, hap |-> [hap EXCEPT ![h].effects[n] = desc.type]]

SDL_HapticDestroyEffect(h, id, hap) ==
    IF id + 1 \in DOMAIN hap[h].effects
    THEN [hap EXCEPT ![h].effects[id + 1] = "free"]
    ELSE hap

\* The last close of a haptic device frees the effects still uploaded to it.
SDL_HapticClose(h, hap) ==
    IF hap[h].open > 1
    THEN [hap EXCEPT ![h].open = @ - 1]
    ELSE [hap EXCEPT ![h].open = 0,
                     ![h].effects = [n \in DOMAIN @ |-> "free"]]

-----------------------------------------------------------------------------
(* Device *)

PadKeys == {"PAD_L2", "PAD_R2", "PAD_CROSS", "PAD_L_UP", "PAD_R_RIGHT"}

sdl2_defaults ==
    [k \in PadKeys |->
        CASE k = "PAD_L2"      -> 4
          [] k = "PAD_R2"      -> 5
          [] k = "PAD_CROSS"   -> 0
          [] k = "PAD_L_UP"    -> 1
          [] k = "PAD_R_RIGHT" -> 2]

ClearBindings == [k \in PadKeys |-> 0]

ResetBindingsToDefault(bindings) ==
    [k \in PadKeys |-> IF k \in DOMAIN sdl2_defaults THEN sdl2_defaults[k]
                                                       ELSE bindings[k]]

\* std::hash<std::string> of the GUID string
hash_me(guid) == (guid * 31 + 7) % 64

\* The fields as the base class constructor Device() leaves them
Device ==
    [m_device_name |-> 0,
     m_unique_id   |-> 0,
     m_no_error    |-> FALSE]

\* The object after the constructor's initialisers, m_effects_id.fill(-1),
\* ClearBindings() and ResetBindingsToDefault()
NewGamepad ==
    Device @@
    [m_controller  |-> NULL,
     m_haptic      |-> NULL,
     m_effects_id  |-> [n \in 1..NB_EFFECT |-> -1],
     m_bindings    |-> ResetBindingsToDefault(ClearBindings)]

\* effects[i] of the constructor
DefaultEffect(i) ==
    [type |-> IF i = 0 THEN "sine" ELSE "triangle", period |-> 10,
     phase |-> 18000, length |-> 125]

\* The descriptor the upload loop hands to SDL_HapticNewEffect for a slot
UploadedEffect(slot) == DefaultEffect(0)

ClearOnFail_Keep(m_haptic, eid) == m_haptic

\* m_haptic after the upload of one slot returned eid
ClearOnFail(m_haptic, eid) == IF eid < 0 THEN NULL ELSE m_haptic

\* for (auto& eid : m_effects_id): upload, stop at the first failure
RECURSIVE UploadEffects(_, _, _, _)
UploadEffects(slot, m_haptic, ids, hap) ==
    IF slot >= NB_EFFECT
    THEN [m_haptic |-> m_haptic, ids |-> ids, hap |-> hap]
    ELSE LET r == SDL_HapticNewEffect(m_haptic, UploadedEffect(slot), hap)
             ids2 == [ids EXCEPT ![slot + 1] = r.id]
         IN  IF r.id < 0
             THEN [m_haptic |-> ClearOnFail(m_haptic, r.id), ids |-> ids2,
                   hap |-> r.hap]
             ELSE UploadEffects(slot + 1, ClearOnFail(m_haptic, r.id), ids2,
                                r.hap)

\* SDL2Gamepad::SDL2Gamepad(id): the device built and the haptic state left
SDL2Gamepad(id, hap) ==
    LET gc  == SDL_IsGameController(id)
        ctl == IF gc THEN SDL_GameControllerOpen(id) ELSE NULL
        joy == IF gc THEN SDL_GameControllerGetJoystick(ctl)
                     ELSE SDL_JoystickOpen(id)
        d0  == [NewGamepad EXCEPT !.m_controller = ctl]
    IN  IF joy = NULL THEN [dev |-> d0, hap |-> hap]
        ELSE
        LET d1 == [d0 EXCEPT !.m_device_name = SDL_JoystickNameForIndex(id)]
        IN  IF ctl = NULL THEN [dev |-> d1, hap |-> hap]
            ELSE
            LET d2 == [d1 EXCEPT !.m_unique_id =
                                     hash_me(SDL_JoystickGetGUIDString(joy))]
            IN  IF SDL_JoystickIsHaptic(joy)
                THEN LET o == SDL_HapticOpenFromJoystick(joy, hap)
                         u == UploadEffects(0, o.h, d2.m_effects_id, o.hap)
                     IN  [dev |-> [d2 EXCEPT !.m_haptic = u.m_haptic,
                                             !.m_effects_id = u.ids,
                                             !.m_no_error = TRUE],
                          hap |-> u.hap]
                ELSE [dev |-> [d2 EXCEPT !.m_no_error = TRUE], hap |-> hap]

DestructorCalls_ControllerFirst(d) ==
    (IF d.m_controller # NULL /\ build_closes
     THEN <<[fn |-> "close_controller", h |-> d.m_controller, id |-> -1]>>
     ELSE <<>>)
    \o
    (IF d.m_haptic # NULL
     THEN [n \in 1..NB_EFFECT |->
              [fn |-> "destroy_effect", h |-> d.m_haptic,
               id |-> d.m_effects_id[n]]]
          \o <<[fn |-> "close_haptic", h |-> d.m_haptic, id |-> -1]>>
     ELSE <<>>)

\* SDL2Gamepad::~SDL2Gamepad(): the calls it makes into SDL, in order
DestructorCalls(d) ==
    (IF d.m_haptic # NULL
     THEN SelectSeq([n \in 1..NB_EFFECT |->
                        [fn |-> "destroy_effect", h |-> d.m_haptic,
                         id |-> d.m_effects_id[n]]],
                    LAMBDA c : c.id >= 0)
          \o <<[fn |-> "close_haptic", h |-> d.m_haptic, id |-> -1]>>
     ELSE <<>>)
    \o
    (IF d.m_controller # NULL /\ build_closes
     THEN <<[fn |-> "close_controller", h |-> d.m_controller, id |-> -1]>>
     ELSE <<>>)

\* What SDL's haptic state becomes under a sequence of release calls
RECURSIVE ApplyCalls(_, _)
ApplyCalls(cs, hap) ==
    IF cs = <<>> THEN hap
    ELSE LET c == Head(cs)
             h2 == CASE c.fn = "destroy_effect" ->
                            SDL_HapticDestroyEffect(c.h, c.id, hap)
                      [] c.fn = "close_haptic" -> SDL_HapticClose(c.h, hap)
                      [] OTHER -> hap
         IN  ApplyCalls(Tail(cs), h2)

\* devices.clear() and the device manager's teardown: every destructor runs
RECURSIVE DestroyAll(_)
DestroyAll(devs) ==
    IF devs = <<>> THEN <<>>
    ELSE DestructorCalls(Head(devs)) \o DestroyAll(Tail(devs))

-----------------------------------------------------------------------------
(* EnumerateSDL2 *)

SDL_FLAG == {"JOYSTICK", "HAPTIC", "EVENTS", "GAMECONTROLLER"}

NeedsInit_Always(mask) == TRUE

\* (SDL_WasInit(0) & flag) != flag
NeedsInit(mask) == (mask \cap SDL_FLAG) # SDL_FLAG

RegistryAfterClear_Kept(devs) == devs

\* device_manager->devices.clear()
RegistryAfterClear(devs) == <<>>

KeepDevice_Always(d) == TRUE

\* IsProperlyInitialized() of the device just pushed: kept, or popped again
KeepDevice(d) == d.m_no_error

\* for (int i = 0; i < SDL_NumJoysticks(); ++i): push_back, pop_back on error
RECURSIVE EnumerateLoop(_, _, _)
EnumerateLoop(i, devs, hap) ==
    IF i >= SDL_NumJoysticks THEN [devs |-> devs, hap |-> hap, built |-> i]
    ELSE LET c == SDL2Gamepad(i, hap)
         IN  EnumerateLoop(i + 1,
                           IF KeepDevice(c.dev) THEN Append(devs, c.dev)
                                                ELSE devs,
                           c.hap)

InitFailed_Ignored(rc) == FALSE

\* if (SDL_Init(flag) < 0) return;
InitFailed(rc) == rc < 0

SIG_DFL == [SIGINT |-> "default", SIGTERM |-> "default"]
SIG_SDL == [SIGINT |-> "sdl", SIGTERM |-> "sdl"]

\* The signal dispositions when EnumerateSDL2 leaves its init block: SDL_Init
\* may have installed SDL's handlers; the sigaction calls follow a successful
\* SDL_Init only.
SignalsAfterInit(cur, init) ==
    IF InitFailed(init.rc)
    THEN IF init.installs THEN SIG_SDL ELSE cur
    ELSE SIG_DFL

Enumerate ==
    /\ alive
    /\ \A j \in DOMAIN haptics : haptics[j].open < MaxLeak
    /\ \E failAt \in IF NeedsInit(sdl_was_init)
                     THEN {0} \cup InitFailures(sdl_was_init) ELSE {0} :
         LET need == NeedsInit(sdl_was_init)
             init == IF need THEN SDL_Init(sdl_was_init, failAt)
                     ELSE [rc |-> 0, mask |-> sdl_was_init, installs |-> FALSE]
             stop == need /\ InitFailed(init.rc)
             how  == IF ~need THEN "skipped"
                     ELSE IF init.rc < 0 THEN "failed" ELSE "ok"
             rel  == IF stop THEN <<>> ELSE DestroyAll(devices)
             r    == IF stop
                     THEN [devs |-> devices, hap |-> haptics, built |-> 0]
                     ELSE EnumerateLoop(0, RegistryAfterClear(devices),
                                        ApplyCalls(rel, haptics))
         IN  /\ sdl_was_init' = init.mask
             /\ sig' = IF need THEN SignalsAfterInit(sig, init) ELSE sig
             /\ calls' = rel
             /\ devices' = r.devs
             /\ haptics' = r.hap
             /\ last_enum' = how
             /\ ret' = [op |-> "enumerate", init |-> how, built |-> r.built,
                        prev |-> last_enum, pre |-> devices]
    /\ UNCHANGED <<joysticks, build_closes, forcefeedback, alive, conf, query>>

-----------------------------------------------------------------------------
(* SDL2Gamepad::Rumble *)

RumbleCalls_NoFlagCheck(d, type, pad) ==
    IF type >= Len(d.m_effects_id) THEN <<>>
    ELSE IF d.m_haptic = NULL THEN <<>>
    ELSE <<[fn |-> "run_effect", h |-> d.m_haptic,
            id |-> d.m_effects_id[type + 1], iters |-> 1]>>

\* The calls Rumble(type, pad) makes into SDL
RumbleCalls(d, type, pad) ==
    IF type >= Len(d.m_effects_id) THEN <<>>
    ELSE IF ~forcefeedback[pad] THEN <<>>
    ELSE IF d.m_haptic = NULL THEN <<>>
    ELSE <<[fn |-> "run_effect", h |-> d.m_haptic,
            id |-> d.m_effects_id[type + 1], iters |-> 1]>>

Rumble ==
    /\ alive
    /\ \E n \in DOMAIN devices, type \in 0..NB_EFFECT,
          pad \in 0..(GAMEPAD_NUMBER - 1) :
          LET cs == RumbleCalls(devices[n], type, pad)
          IN  \E rc \in IF cs = <<>> THEN {0} ELSE {0, -1} :
                /\ calls' = cs
                /\ ret' = [op |-> "rumble", dev |-> n, type |-> type,
                           pad |-> pad, rc |-> rc, pre |-> devices]
    /\ UNCHANGED <<joysticks, build_closes, forcefeedback, sdl_was_init, sig,
                   haptics, devices, alive, last_enum, conf, query>>

\* The device manager is destroyed: every device it holds is destructed.
Teardown ==
    /\ alive
    /\ alive' = FALSE
    /\ calls' = DestroyAll(devices)
    /\ haptics' = ApplyCalls(calls', haptics)
    /\ devices' = <<>>
    /\ ret' = [op |-> "teardown", pre |-> devices]
    /\ UNCHANGED <<joysticks, build_closes, forcefeedback, sdl_was_init, sig,
                   last_enum, conf, query>>

-----------------------------------------------------------------------------
(* Initial states: the joysticks connected, the build, the configuration *)

JoyModel(isGC, opens, isHaptic, hapticOpens, neffects) ==
    LET g == (IF isGC THEN 1 ELSE 0) + (IF opens THEN 2 ELSE 0)
             + (IF isHaptic THEN 4 ELSE 0) + (IF hapticOpens THEN 8 ELSE 0)
             + 16 * neffects
    IN  [isGC |-> isGC, opens |-> opens, isHaptic |-> isHaptic,
         hapticOpens |-> hapticOpens, neffects |-> neffects,
         guid |-> g, name |-> g]

JoyModels ==
    {JoyModel(gc, op, FALSE, FALSE, 0) : gc \in BOOLEAN, op \in BOOLEAN}
    \cup {JoyModel(TRUE, TRUE, TRUE, FALSE, 0)}
    \cup {JoyModel(TRUE, TRUE, TRUE, TRUE, n) : n \in 0..NB_EFFECT}

JoySeqs == UNION {[1..n -> JoyModels] : n \in 0..MaxJoy}

InitLife ==
    /\ joysticks \in JoySeqs
    /\ build_closes \in BOOLEAN
    /\ forcefeedback \in [0..(GAMEPAD_NUMBER - 1) -> BOOLEAN]
    /\ sdl_was_init = {}
    /\ sig = SIG_DFL
    /\ haptics = [j \in DOMAIN joysticks |->
                    [open |-> 0,
                     effects |-> [n \in 1..joysticks[j].neffects |-> "free"]]]
    /\ devices = <<>>
    /\ alive = TRUE
    /\ last_enum = "none"
    /\ calls = <<>>
    /\ ret = [op |-> "none"]

Init ==
    /\ InitLife
    /\ conf = [sensibility |-> 100, deadzone |-> 1500]
    /\ query = [input |-> "none", done |-> TRUE]

Next == Enumerate \/ Rumble \/ Teardown

Spec == Init /\ [][Next]_vars

-----------------------------------------------------------------------------
(* SDL2Gamepad::GetInput *)

MaxSens == 200      \* largest sensibility (percent) examined
Near == 20          \* raw values examined around 0 and both ends of the range

AXIS_MIN == -32768
AXIS_MAX == 32767

Abs(x) == IF x < 0 THEN -x ELSE x

RECURSIVE BitLen(_)
BitLen(n) == IF n = 0 THEN 0 ELSE 1 + BitLen(n \div 2)

\* C++ integer division, truncating toward zero
TruncDiv(a, b) == IF a >= 0 THEN a \div b ELSE -((-a) \div b)

\* float k = sensibility / 100.0 is M / 2^S with a 24-bit significand M:
\* S is the least scale with sens * 2^S >= 100 * 2^23
FloatScale(sens) == BitLen((100 * 2^23 + sens - 1) \div sens - 1)

FloatMant(sens) ==
    LET n == sens * 2^FloatScale(sens)
        q == n \div 100
        r == n % 100
    IN  IF r > 50 \/ (r = 50 /\ q % 2 = 1) THEN q + 1 ELSE q

\* (int)((float)a * k) for a >= 0: the exact product a * M / 2^S rounded to a
\* 24-bit significand (nearest, ties to even), then truncated
FloatMulTrunc(a, M, S) ==
    LET lowp == a * (M % 4096)
        hi   == a * (M \div 4096) + lowp \div 4096
        lo   == lowp % 4096
        I    == hi \div 2^(S - 12)
        R    == (hi % 2^(S - 12)) * 4096 + lo
        drop == IF I >= 1 THEN S - (24 - BitLen(I)) ELSE BitLen(R) - 24
    IN  IF drop <= 0 THEN I
        ELSE LET q    == R \div 2^(drop)
                 rem  == R % 2^(drop)
                 half == 2^(drop - 1)
                 up   == rem > half \/ (rem = half /\ q % 2 = 1)
             IN  IF up /\ q + 1 = 2^(S - drop) THEN I + 1 ELSE I

ScaleAxis_NoPercent(value, sens) == value * sens

\* value *= k, with k = g_conf.get_sensibility() / 100.0 as a float
ScaleAxis(value, sens) ==
    LET m == FloatMulTrunc(Abs(value), FloatMant(sens), FloatScale(sens))
    IN  IF value < 0 THEN -m ELSE m

IsAnalogKey(input) == input \in {"PAD_L_UP", "PAD_R_RIGHT"}

\* GetInput(input) when SDL reports raw for the bound axis or button
GetInput(input, raw, sens, deadzone) ==
    IF IsAnalogKey(input)
    THEN LET value == ScaleAxis(raw, sens)
         IN  IF Abs(value) > deadzone THEN value ELSE 0
    ELSE IF input \in {"PAD_L2", "PAD_R2"}
    THEN IF raw > deadzone THEN TruncDiv(raw, 128) ELSE 0
    ELSE IF raw # 0 THEN 255 ELSE 0

\* SDL_GameControllerGetAxis / SDL_GameControllerGetButton: the values examined
RawValues(input) ==
    IF IsAnalogKey(input) \/ input \in {"PAD_L2", "PAD_R2"}
    THEN (AXIS_MIN..(AXIS_MIN + Near)) \cup ((-Near)..Near)
         \cup ((AXIS_MAX - Near)..AXIS_MAX)
         \cup {-20000, -8001, -8000, 7999, 8000, 8001, 20000}
    ELSE {0, 1}

GetInputCall ==
    /\ ~query.done
    /\ \E n \in DOMAIN devices :
         query' = [query EXCEPT
                     !.done = TRUE,
                     !.code = devices[n].m_bindings[query.input],
                     !.result = GetInput(query.input, query.raw,
                                         conf.sensibility, conf.deadzone)]
    /\ UNCHANGED <<lifeVars, conf>>

Deadzones == {0, 1500, 8000, 32767, 32768}

\* One recognised controller, enumerated; a sensibility, a dead zone and the
\* input queried with the raw value SDL holds for it
InitInput ==
    /\ joysticks = <<JoyModel(TRUE, TRUE, FALSE, FALSE, 0)>>
    /\ build_closes = TRUE
    /\ forcefeedback = [p \in 0..(GAMEPAD_NUMBER - 1) |-> TRUE]
    /\ sdl_was_init = SDL_FLAG
    /\ sig = SIG_DFL
    /\ haptics = [j \in DOMAIN joysticks |-> [open |-> 0, effects |-> <<>>]]
    /\ devices = EnumerateLoop(0, <<>>, haptics).devs
    /\ alive = TRUE
    /\ last_enum = "ok"
    /\ calls = <<>>
    /\ ret = [op |-> "none"]
    /\ conf \in [sensibility : 1..MaxSens, deadzone : Deadzones]
    /\ \E input \in PadKeys :
         \E raw \in RawValues(input) :
            query = [input |-> input, raw |-> raw, done |-> FALSE,
                     code |-> 0, result |-> 0]

NextInput == GetInputCall

SpecInput == InitInput /\ [][NextInput]_vars

-----------------------------------------------------------------------------
(* Properties *)

CeilDiv(a, b) == (a + b - 1) \div b

IsStickQuery == query.done /\ IsAnalogKey(query.input)

\* What is compared between two enumerations, slot by slot
RegistryView(devs) ==
    [n \in DOMAIN devs |->
        [device_name    |-> devs[n].m_device_name,
         unique_id      |-> devs[n].m_unique_id,
         initialized_ok |-> devs[n].m_no_error,
         bindings       |-> devs[n].m_bindings,
         haptic_present |-> devs[n].m_haptic # NULL]]

ReleaseRank(fn) ==
    CASE fn = "destroy_effect" -> 1
      [] fn = "close_haptic" -> 2
      [] fn = "close_controller" -> 3

Destructed == ret.op = "teardown" \/ (ret.op = "enumerate" /\ ret.init # "failed")

\* C1: every Device in the Device Manager's registry has initialized_ok true
\* and a controller handle, whatever mix of joysticks was enumerated.
C1_RegistryInitialized ==
    \A n \in DOMAIN devices :
        devices[n].m_no_error /\ devices[n].m_controller # NULL

\* An enumeration that kept one device and dropped another
C1_Witness ==
    /\ ret.op = "enumerate"
    /\ Len(devices) >= 1
    /\ Len(devices) < ret.built

\* C2: in every destruction the effects (id >= 0) are destroyed before the
\* haptic handle is closed, and that before the controller handle is closed;
\* a device without haptic handle gets no haptic release call at all.
C2_ReleaseOrder ==
    Destructed =>
        /\ \A i, j \in DOMAIN calls :
              (i < j /\ calls[i].h = calls[j].h) =>
                  /\ ReleaseRank(calls[i].fn) <= ReleaseRank(calls[j].fn)
                  /\ ReleaseRank(calls[i].fn) = ReleaseRank(calls[j].fn)
                        => calls[i].fn = "destroy_effect"
        /\ \A i \in DOMAIN calls :
              calls[i].fn = "destroy_effect" => calls[i].id >= 0
        /\ \A n \in DOMAIN ret.pre :
              ret.pre[n].m_haptic = NULL =>
                  ~ \E i \in DOMAIN calls :
                        /\ calls[i].h = ret.pre[n].m_controller
                        /\ calls[i].fn \in {"destroy_effect", "close_haptic"}

\* A device with effects, haptic and controller handle was destructed, and one
\* without haptic handle too
C2_Witness ==
    /\ Destructed
    /\ \E i, j, k \in DOMAIN calls :
          /\ i < j /\ j < k
          /\ calls[i].fn = "destroy_effect"
          /\ calls[j].fn = "close_haptic"
          /\ calls[k].fn = "close_controller"
          /\ calls[i].h = calls[j].h /\ calls[j].h = calls[k].h
    /\ \E n \in DOMAIN ret.pre : ret.pre[n].m_haptic = NULL

\* C3: whenever EnumerateSDL2 found the subsystems not all initialised and
\* called SDL_Init, SIGINT and SIGTERM have the default disposition when it
\* returns.
C3_SignalsRestored ==
    (ret.op = "enumerate" /\ ret.init # "skipped") => sig = SIG_DFL

\* C4: Rumble calls run_effect only with the slot in range, force feedback
\* enabled for the pad and a haptic handle; then it runs effects_id[slot]
\* once, and the devices are as before whether or not the call failed.
C4_RumbleGuards ==
    ret.op = "rumble" =>
        LET d == devices[ret.dev]
        IN  /\ devices = ret.pre
            /\ IF \/ ret.type >= NB_EFFECT
                  \/ ~forcefeedback[ret.pad]
                  \/ d.m_haptic = NULL
               THEN calls = <<>>
               ELSE calls = <<[fn |-> "run_effect", h |-> d.m_haptic,
                               id |-> d.m_effects_id[ret.type + 1],
                               iters |-> 1]>>

\* A rumble on a pad without force feedback, on a device with haptic handle
C4_Witness ==
    /\ ret.op = "rumble"
    /\ ret.type < NB_EFFECT
    /\ devices[ret.dev].m_haptic # NULL
    /\ ~forcefeedback[ret.pad]
    /\ forcefeedback[1 - ret.pad]

\* C5: when SDL_Init fails, EnumerateSDL2 constructs no Device and the
\* registry is empty when it returns.
C5_InitFailureLeavesEmpty ==
    (ret.op = "enumerate" /\ ret.init = "failed") =>
        ret.built = 0 /\ devices = <<>>

\* A failed initialisation after an earlier failed one, joysticks connected
C5_Witness ==
    /\ ret.op = "enumerate"
    /\ ret.init = "failed"
    /\ ret.prev = "failed"
    /\ Len(joysticks) > 0

\* C6 as stated: for a stick input the result is at most
\* ceil(0x7FFF * sensibility / 100) in magnitude, and 0 for a raw value of 0.
C6_StickBound7FFF ==
    IsStickQuery =>
        /\ Abs(query.result) <= CeilDiv(AXIS_MAX * conf.sensibility, 100)
        /\ query.raw = 0 => query.result = 0

\* C6 amended: for a stick input the result is at most
\* ceil(0x8000 * sensibility / 100) in magnitude (the raw minimum is -0x8000),
\* and at most ceil(0x7FFF * sensibility / 100) for every raw value but the
\* minimum; it is 0 for a raw value of 0.
C6_StickBound8000 ==
    IsStickQuery =>
        /\ Abs(query.result) <= CeilDiv((-AXIS_MIN) * conf.sensibility, 100)
        /\ query.raw # AXIS_MIN =>
              Abs(query.result) <= CeilDiv(AXIS_MAX * conf.sensibility, 100)
        /\ query.raw = 0 => query.result = 0

\* The raw minimum at sensibility 100 comes back as it is
C6_Witness ==
    /\ IsStickQuery
    /\ query.raw = AXIS_MIN
    /\ conf.sensibility = 100
    /\ query.result = AXIS_MIN

\* C7 as stated: an EnumerateSDL2 after an earlier one leaves the registry
\* with the same length and the same name, id, initialized_ok, bindings and
\* haptic-present flag in every slot.
C7_Idempotent ==
    (ret.op = "enumerate" /\ ret.prev # "none") =>
        RegistryView(devices) = RegistryView(ret.pre)

\* C7 amended: the same, when SDL's initialisation did not fail in the one
\* call and succeed in the other.
C7_IdempotentSameInit ==
    (/\ ret.op = "enumerate"
     /\ ret.prev # "none"
     /\ (ret.prev = "failed") = (ret.init = "failed")) =>
        RegistryView(devices) = RegistryView(ret.pre)

\* A second enumeration that kept a device and dropped another
C7_Witness ==
    /\ ret.op = "enumerate"
    /\ ret.prev \in {"ok", "skipped"}
    /\ Len(devices) >= 1
    /\ Len(devices) < ret.built

\* C8: a device with a haptic handle has every effect id >= 0, so every id
\* Rumble passes to run_effect is >= 0.
C8_HapticImpliesEffects ==
    /\ \A n \in DOMAIN devices :
          devices[n].m_haptic # NULL =>
              \A s \in 1..NB_EFFECT : devices[n].m_effects_id[s] >= 0
    /\ ret.op = "rumble" => \A i \in DOMAIN calls : calls[i].id >= 0

\* A rumble ran an effect while the registry also holds a device whose second
\* slot failed to register after the first succeeded
C8_Witness ==
    /\ ret.op = "rumble"
    /\ calls # <<>>
    /\ \E n \in DOMAIN devices :
          /\ devices[n].m_haptic = NULL
          /\ devices[n].m_effects_id[1] >= 0
          /\ devices[n].m_effects_id[2] < 0

\* C9: on a device whose registrations all succeeded, slot 0 holds a sine
\* effect and every later slot a triangle effect.
C9_SlotTypes ==
    \A n \in DOMAIN devices :
        devices[n].m_haptic # NULL =>
            \A s \in 1..NB_EFFECT :
                haptics[devices[n].m_haptic]
                    .effects[devices[n].m_effects_id[s] + 1]
                  = DefaultEffect(s - 1).type

\* C10: after teardown no haptic handle that a constructor opened is still
\* open.
C10_NoHapticLeft ==
    ret.op = "teardown" => \A j \in DOMAIN haptics : haptics[j].open = 0

=============================================================================
